---- MODULE Spec2Model ----
(***************************************************************************)
(* TurboAudio: the control loop of src/main.rs (test_and_run_loop, tick,   *)
(* send_to_connection) and the spectral analyzer of                        *)
(* src/audio_processing.rs (AudioSignalProcessor, FftResult).              *)
(*                                                                         *)
(* Spec          the control loop: one step per loop body of tick          *)
(* FairSpec      Spec with weak fairness of the loop (it never blocks)     *)
(* AnalyzerSpec  the analyzer: producer pushes, compute_fft, the queries   *)
(***************************************************************************)
EXTENDS Integers, Sequences, FiniteSets, TLC

\* ------------------------------------------------------------------ bounds

\* strips handed to tick (main.rs builds one; tick takes any Vec<LedStrip>)
NumStrips == 2
\* LEDs per strip (300 in main.rs:93)
LedCount == 2
\* FFT window size and sample rate, scaled down from 1024 and 48000 so that
\* the History Buffer wraps and every bin boundary is met within the bounds;
\* the bin resolution SAMPLE_RATE / FFT_SIZE stays a non-integer (3.75 for
\* 46.875)
FFT_SIZE == 4
SAMPLE_RATE == 15
\* frequencies queried: 0..MaxHz, which reaches past the last bin
MaxHz == 16
\* samples the producer pushes in a run, and the capacity of the Sample Queue
MaxSamples == 6
QueueCap == 5
\* threads reading the published frame beside the analyzer
NumReaders == 2
Readers == 1..NumReaders

\* -------------------------------------------------- values and registries

\* Option<i32>: None and Some(id)
None == <<>>
Some(id) == <<id>>

\* Color { r, g, b } and the colors of a strip after set_led_count
Black == <<0, 0, 0>>
DefaultColors == [i \in 0..(LedCount - 1) |-> Black]

\* settings registry built by test_and_run_loop: id -> variant tag
settings == (0 :> "Moody") @@ (1 :> "Raindrop") @@ (2 :> "Lua")

\* effects registry built by test_and_run_loop: id -> variant tag
effects == (10 :> "Moody") @@ (20 :> "Raindrop") @@ (30 :> "Lua")

\* connection registry built by test_and_run_loop: id -> transport variant
InitialConnections == (1 :> "Tcp") @@ (2 :> "Usb")

\* effect id -> settings id, as test_and_run_loop inserts them
ReferenceEffectSettings == (10 :> 0) @@ (20 :> 1) @@ (30 :> 2)

\* the maps tick is run with: the reference map and the maps that break one
\* of tick's lookups (a mismatching entry, a missing entry, a dangling id)
EffectSettingsChoices ==
    { ReferenceEffectSettings,
      (10 :> 1) @@ (20 :> 1) @@ (30 :> 2),
      (10 :> 0) @@ (20 :> 0) @@ (30 :> 2),
      (10 :> 0) @@ (30 :> 2),
      (10 :> 0) @@ (20 :> 1) @@ (30 :> 3) }

\* binding lists of a strip: (effect id, inclusive LED interval), in
\* insertion order
BindingLists ==
    { << >>,
      << <<10, <<0, 0>> >>, <<30, <<0, LedCount - 1>> >> >>,
      << <<30, <<0, 0>> >>, <<20, <<1, LedCount - 1>> >> >>,
      << <<40, <<0, 0>> >> >>,
      << <<10, <<1, LedCount>> >> >> }

StripSetups ==
    { [colors |-> DefaultColors, effects |-> e, connection_id |-> c] :
        e \in BindingLists, c \in {None, Some(1), Some(2)} }

\* ----------------------------------------------------------------- state

VARIABLES
    ledstrips,        \* Vec<LedStrip>: 1..NumStrips -> [colors, effects, connection_id]
    effect_settings,  \* HashMap<i32, i32>
    connections,      \* HashMap<i32, Connection>: id -> "Tcp" | "Usb"
    pc,               \* "sleep" | "effects" | "dispatch" | "aborted"
    si,               \* the strip the outer loop of tick is at
    bi,               \* the binding the inner loop of tick is at
    panic,            \* the message the process aborted with, "" while it runs
    log,              \* what the current loop iteration has done so far
    failed,           \* strips whose enqueue has failed so far
    analyzed,         \* compute_fft has run in the current loop iteration
    audio_sample_buffer, \* History Buffer
    queue,            \* Sample Queue (the contents audio_sample_rx can pop)
    produced,         \* samples the producer has pushed so far
    fft_result,       \* the published FftResult.raw_bins
    build,            \* "debug" | "release": overflow checks on or off
    query,            \* the last amplitude query and what it returned
    sample_count,     \* how many samples the last compute_fft drained
    apc,              \* compute_fft: "idle" | "publish" (at fft_result.write())
    fft_window_buffer, \* the bins compute_fft has computed and not yet published
    readers,          \* the readers holding fft_result.read()
    view              \* per reader: the bins read under the current guard

loopVars == <<ledstrips, effect_settings, connections, pc, si, bi, panic, log, failed>>
computeVars == <<sample_count, apc, fft_window_buffer>>
readerVars == <<readers, view>>
analyzerVars == <<audio_sample_buffer, queue, produced, fft_result, build, query,
                  computeVars, readerVars>>
vars == <<loopVars, analyzed, analyzerVars>>

\* --------------------------------------------------- tick: effect bindings

\* colors.get_mut(interval.0..=interval.1) is Some: the inclusive range lies
\* in the buffer (an empty range lo = hi + 1 is still a valid slice)
IntervalInBounds(colors, interval) ==
    /\ interval[1] <= interval[2] + 1
    /\ interval[2] + 1 <= Cardinality(DOMAIN colors)

\* mutant: an absent settings id falls back to the Lua settings
SettingsGet_OrDefault(setting_id) ==
    IF setting_id \in DOMAIN settings THEN Some(settings[setting_id]) ELSE Some("Lua")

\* settings.get(setting_id): Option<&Settings>, by variant tag
SettingsGet(setting_id) ==
    IF setting_id \in DOMAIN settings THEN Some(settings[setting_id]) ELSE None

\* mutant: the arm is chosen by the effect's variant alone
MatchArm_NoTagCheck(effect, setting) ==
    IF setting = None THEN "panic" ELSE effect

\* the match on (effect, setting): the arm taken, "panic" for the wildcard
MatchArm(effect, setting) ==
    CASE effect = "Moody" /\ setting = Some("Moody") -> "Moody"
      [] effect = "Raindrop" /\ setting = Some("Raindrop") -> "Raindrop"
      [] effect = "Lua" /\ setting = Some("Lua") -> "Lua"
      [] OTHER -> "panic"

\* mutant: the Err of lua.tick is unwrapped instead of printed
ArmOutcome_LuaErrFatal(arm, luaOk) ==
    IF arm = "panic" \/ (arm = "Lua" /\ ~luaOk) THEN "panic" ELSE "update"

\* what the arm taken comes to: the wildcard arm panics; the Lua arm gets a
\* Result, whose Err is printed and dropped; the others call their update
ArmOutcome(arm, luaOk) ==
    IF arm = "panic" THEN "panic"
    ELSE IF arm = "Lua" /\ ~luaOk THEN "luaerr"
    ELSE "update"

\* the color an effect's update leaves in its slice (Moody: its settings'
\* color; the other two stand for whatever the effect computes)
EffectColor(arm) ==
    CASE arm = "Moody" -> <<255, 0, 0>>
      [] arm = "Raindrop" -> <<0, 0, 255>>
      [] OTHER -> <<1, 2, 3>>

\* update_moody / update_raindrop / lua.tick on the slice leds: the colors of
\* the strip afterwards. A failing lua.tick leaves the slice as it was.
EffectUpdate(colors, interval, arm, outcome) ==
    IF outcome = "luaerr" THEN colors
    ELSE [i \in DOMAIN colors |->
            IF interval[1] <= i /\ i <= interval[2] THEN EffectColor(arm) ELSE colors[i]]

\* one entry of the record of an iteration; data is what a dispatch handed
\* to data_queue.send
Event(ev, strip, binding, out) ==
    [ev |-> ev, strip |-> strip, binding |-> binding, out |-> out, data |-> <<>>]

\* the binding the inner loop is at, and what its lookups give
CurBinding == ledstrips[si].effects[bi]
CurEffectId == CurBinding[1]
CurInterval == CurBinding[2]

\* mutant: the dispatch sits inside the inner loop
AfterBinding_DispatchInside ==
    /\ pc' = "dispatch" /\ si' = si /\ bi' = bi

\* the position after binding bi of strip si: the next binding, or the
\* strip's dispatch after the last one
AfterBinding ==
    IF bi < Len(ledstrips[si].effects)
    THEN /\ pc' = "effects" /\ si' = si /\ bi' = bi + 1
    ELSE /\ pc' = "dispatch" /\ si' = si /\ bi' = bi

\* the position after strip si: the next strip, or the end of tick
AfterStrip ==
    IF si < NumStrips
    THEN /\ si' = si + 1 /\ bi' = 1
         /\ pc' = IF Len(ledstrips[si + 1].effects) = 0 THEN "dispatch" ELSE "effects"
    ELSE /\ pc' = "sleep" /\ si' = 1 /\ bi' = 1

\* panic! / expect / todo!: the process aborts, nothing else changes
Abort(message) ==
    /\ pc' = "aborted"
    /\ panic' = message
    /\ UNCHANGED <<si, bi, ledstrips, effect_settings, connections, log, failed>>

\* one pass of the inner loop body of tick
EvalBinding ==
    /\ pc = "effects"
    /\ UNCHANGED <<analyzed, analyzerVars>>
    /\ \/ /\ ~IntervalInBounds(ledstrips[si].colors, CurInterval)
          /\ Abort("Ledstrip interval out of bounds")
       \/ /\ IntervalInBounds(ledstrips[si].colors, CurInterval)
          /\ CurEffectId \notin DOMAIN effects
          /\ Abort("Effect id was not found.")
       \/ /\ IntervalInBounds(ledstrips[si].colors, CurInterval)
          /\ CurEffectId \in DOMAIN effects
          /\ CurEffectId \notin DOMAIN effect_settings
          /\ Abort("Setting id not found")
       \/ /\ IntervalInBounds(ledstrips[si].colors, CurInterval)
          /\ CurEffectId \in DOMAIN effects
          /\ CurEffectId \in DOMAIN effect_settings
          /\ \E luaOk \in BOOLEAN :
               LET arm == MatchArm(effects[CurEffectId],
                                   SettingsGet(effect_settings[CurEffectId]))
                   outcome == ArmOutcome(arm, luaOk)
               IN  \/ /\ outcome = "panic"
                      /\ Abort("Effect doesn't match settings")
                   \/ /\ outcome # "panic"
                      /\ arm # "Lua" => luaOk
                      /\ ledstrips' = [ledstrips EXCEPT ![si].colors =
                             EffectUpdate(@, CurInterval, arm, outcome)]
                      /\ log' = Append(log, Event(outcome, si, bi,
                             IF outcome = "luaerr" THEN "err" ELSE "ok"))
                      /\ AfterBinding
                      /\ UNCHANGED <<effect_settings, connections, panic, failed>>

\* ------------------------------------------------------ output dispatch

\* Color::to_bytes: the three channels of a color
to_bytes(color) == <<color[1], color[2], color[3]>>

\* the bytes of the colors from LED i on, in LED order
RECURSIVE FlatMapFrom(_, _)
FlatMapFrom(colors, i) ==
    IF i >= Cardinality(DOMAIN colors) THEN <<>>
    ELSE to_bytes(colors[i]) \o FlatMapFrom(colors, i + 1)

\* mutant: the LED count is sent ahead of the colors
Serialize_WithHeader(colors) ==
    <<Cardinality(DOMAIN colors)>> \o FlatMapFrom(colors, 0)

\* data: colors.iter().flat_map(|color| color.to_bytes()).collect()
Serialize(colors) == FlatMapFrom(colors, 0)

\* mutant: a failed send empties the registry
Remove_Clear(conns, connection_id) ==
    [k \in {} |-> "Tcp"]

\* connections.remove(&connection_id)
Remove(conns, connection_id) ==
    [k \in DOMAIN conns \ {connection_id} |-> conns[k]]

\* mutant: a failed send removes the connection and leaves the strip bound
send_to_connection_KeepsId(ledstrip, connection_id, conns, sendOk) ==
    IF connection_id \notin DOMAIN conns
    THEN [result |-> "Err", ledstrip |-> ledstrip, connections |-> conns,
          enqueue |-> "noconn", data |-> <<>>]
    ELSE IF conns[connection_id] = "Tcp"
    THEN IF sendOk
         THEN [result |-> "Ok", ledstrip |-> ledstrip, connections |-> conns,
               enqueue |-> "sent", data |-> Serialize(ledstrip.colors)]
         ELSE [result |-> "Ok", ledstrip |-> ledstrip,
               connections |-> Remove(conns, connection_id),
               enqueue |-> "failed", data |-> Serialize(ledstrip.colors)]
    ELSE [result |-> "todo", ledstrip |-> ledstrip, connections |-> conns,
          enqueue |-> "todo", data |-> <<>>]

\* mutant: a failed send is unwrapped, which aborts like the todo!() does
send_to_connection_SendUnwrapped(ledstrip, connection_id, conns, sendOk) ==
    IF connection_id \notin DOMAIN conns
    THEN [result |-> "Err", ledstrip |-> ledstrip, connections |-> conns,
          enqueue |-> "noconn", data |-> <<>>]
    ELSE IF conns[connection_id] = "Tcp" /\ sendOk
    THEN [result |-> "Ok", ledstrip |-> ledstrip, connections |-> conns,
          enqueue |-> "sent", data |-> Serialize(ledstrip.colors)]
    ELSE [result |-> "todo", ledstrip |-> ledstrip, connections |-> conns,
          enqueue |-> "todo", data |-> <<>>]

\* mutant: the Usb arm is handled like a closed connection
send_to_connection_UsbClosed(ledstrip, connection_id, conns, sendOk) ==
    IF connection_id \notin DOMAIN conns
    THEN [result |-> "Err", ledstrip |-> ledstrip, connections |-> conns,
          enqueue |-> "noconn", data |-> <<>>]
    ELSE IF conns[connection_id] = "Tcp" /\ sendOk
    THEN [result |-> "Ok", ledstrip |-> ledstrip, connections |-> conns,
          enqueue |-> "sent", data |-> Serialize(ledstrip.colors)]
    ELSE [result |-> "Ok",
          ledstrip |-> [ledstrip EXCEPT !.connection_id = None],
          connections |-> Remove(conns, connection_id),
          enqueue |-> "failed", data |-> Serialize(ledstrip.colors)]

\* send_to_connection: its return ("Ok", "Err", or "todo" for the todo!()
\* of the Usb arm), what it leaves of the strip and the registry, and what
\* became of the enqueue. sendOk is the result of data_queue.send(data).
send_to_connection(ledstrip, connection_id, conns, sendOk) ==
    IF connection_id \notin DOMAIN conns
    THEN [result |-> "Err", ledstrip |-> ledstrip, connections |-> conns,
          enqueue |-> "noconn", data |-> <<>>]
    ELSE IF conns[connection_id] = "Tcp"
    THEN IF sendOk
         THEN [result |-> "Ok", ledstrip |-> ledstrip, connections |-> conns,
               enqueue |-> "sent", data |-> Serialize(ledstrip.colors)]
         ELSE [result |-> "Ok",
               ledstrip |-> [ledstrip EXCEPT !.connection_id = None],
               connections |-> Remove(conns, connection_id),
               enqueue |-> "failed", data |-> Serialize(ledstrip.colors)]
    ELSE [result |-> "todo", ledstrip |-> ledstrip, connections |-> conns,
          enqueue |-> "todo", data |-> <<>>]

\* the end of the outer loop body of tick: dispatch if a connection is bound
Dispatch ==
    /\ pc = "dispatch"
    /\ UNCHANGED <<analyzed, analyzerVars>>
    /\ \/ /\ ledstrips[si].connection_id = None
          /\ AfterStrip
          /\ UNCHANGED <<ledstrips, effect_settings, connections, panic, log, failed>>
       \/ /\ ledstrips[si].connection_id # None
          /\ \E sendOk \in BOOLEAN :
               LET r == send_to_connection(ledstrips[si], ledstrips[si].connection_id[1],
                                           connections, sendOk)
               IN  \/ /\ r.result = "todo"
                      /\ pc' = "aborted"
                      /\ panic' = "not yet implemented: Implement Usb connection"
                      /\ log' = Append(log, [Event("dispatch", si, 0, r.enqueue)
                                              EXCEPT !.data = r.data])
                      /\ ledstrips' = [ledstrips EXCEPT ![si] = r.ledstrip]
                      /\ connections' = r.connections
                      /\ UNCHANGED <<si, bi, effect_settings, failed>>
                   \/ /\ r.result # "todo"
                      /\ r.enqueue \in {"sent", "failed"} \/ sendOk
                      /\ ledstrips' = [ledstrips EXCEPT ![si] = r.ledstrip]
                      /\ connections' = r.connections
                      /\ log' = Append(log, [Event("dispatch", si, 0, r.enqueue)
                                              EXCEPT !.data = r.data])
                      /\ failed' = IF r.enqueue = "failed" THEN failed \cup {si} ELSE failed
                      /\ AfterStrip
                      /\ UNCHANGED <<effect_settings, panic>>

\* ------------------------------------------------------- the control loop

\* loop { sleep(16 ms); tick(..) }: the start of an iteration
Sleep ==
    /\ pc = "sleep"
    /\ pc' = IF Len(ledstrips[1].effects) = 0 THEN "dispatch" ELSE "effects"
    /\ si' = 1
    /\ bi' = 1
    /\ log' = <<>>
    /\ analyzed' = FALSE
    /\ UNCHANGED <<ledstrips, effect_settings, connections, panic, failed, analyzerVars>>

\* --------------------------------------------------- the spectral queries

\* Frequencies are usize and bins are f32. The model computes the quotients
\* of the code exactly: a value is num / den, and the f32 division by
\* FFT_RESOLUTION followed by floor / ceil / `as usize` is the integer
\* quotient by SAMPLE_RATE / FFT_SIZE (46.875 is exact in f32, and a
\* frequency below 2^20 Hz is never rounded across an integer).
Value(num, den) == [kind |-> "value", num |-> num, den |-> den]
NaN == [kind |-> "NaN", num |-> 0, den |-> 0]
Panicked == [kind |-> "panic", num |-> 0, den |-> 0]

Min(a, b) == IF a <= b THEN a ELSE b

\* get_bin_frequency_at_index: (index as f32 * FFT_RESOLUTION) as usize
get_bin_frequency_at_index(index) == (index * SAMPLE_RATE) \div FFT_SIZE

\* raw_bins.get(index): Option<&f32> (raw_bins is indexed from 0)
BinsGet(raw_bins, index) ==
    IF index < Len(raw_bins) THEN Some(raw_bins[index + 1]) ELSE None

\* get_frequency_amplitude: None, or Some(n) for the amplitude n / SAMPLE_RATE
get_frequency_amplitude(raw_bins, frequency) ==
    LET min_index == (frequency * FFT_SIZE) \div SAMPLE_RATE
        max_index == IF (frequency * FFT_SIZE) % SAMPLE_RATE = 0
                     THEN min_index ELSE min_index + 1
        \* position_between_bins, as a multiple of 1 / SAMPLE_RATE
        position == (frequency - get_bin_frequency_at_index(min_index)) * FFT_SIZE
        lower == BinsGet(raw_bins, min_index)
        upper == BinsGet(raw_bins, max_index)
    IN  IF lower = None \/ upper = None THEN None
        ELSE Some(lower[1] * position + upper[1] * (SAMPLE_RATE - position))

\* the sum over min_freq..max_freq of get_frequency_amplitude(..).unwrap_or(0.0)
RECURSIVE AmplitudeSum(_, _, _)
AmplitudeSum(raw_bins, min_freq, max_freq) ==
    IF min_freq >= max_freq THEN 0
    ELSE LET a == get_frequency_amplitude(raw_bins, min_freq)
         IN  (IF a = None THEN 0 ELSE a[1])
               + AmplitudeSum(raw_bins, min_freq + 1, max_freq)

\* get_frequency_interval_average_amplitude (band_amplitude). max_freq -
\* min_freq is a usize subtraction: below zero it panics with overflow
\* checks on and wraps to about 2^64 without, where 0.0 / 2^64 is 0.0.
get_frequency_interval_average_amplitude(raw_bins, min_freq, max_freq, mode) ==
    LET sum == AmplitudeSum(raw_bins, min_freq, max_freq)
    IN  IF max_freq < min_freq
        THEN IF mode = "debug" THEN Panicked ELSE Value(0, 1)
        ELSE IF max_freq = min_freq
        THEN NaN
        ELSE Value(sum, SAMPLE_RATE * (max_freq - min_freq))

RECURSIVE BinSum(_, _, _)
BinSum(raw_bins, low_index, high_index) ==
    IF low_index > high_index THEN 0
    ELSE raw_bins[low_index + 1] + BinSum(raw_bins, low_index + 1, high_index)

\* get_frequency_interval_average (range_average). raw_bins.len() - 1 is a
\* usize subtraction: on an empty frame it panics with overflow checks on
\* and wraps to usize::MAX without, where the slice then is out of range.
get_frequency_interval_average(raw_bins, low, high, mode) ==
    LET low_index == (low * FFT_SIZE) \div SAMPLE_RATE
        high_bin == (high * FFT_SIZE) \div SAMPLE_RATE
        high_index == IF Len(raw_bins) = 0 THEN high_bin
                      ELSE Min(high_bin, Len(raw_bins) - 1)
    IN  IF Len(raw_bins) = 0 /\ mode = "debug" THEN Panicked
        ELSE IF low_index >= high_index THEN Value(0, 1)
        ELSE IF high_index >= Len(raw_bins) THEN Panicked
        ELSE Value(BinSum(raw_bins, low_index, high_index), high_index - low_index)

\* ------------------------------------------------------ the analyzer

\* mutant: the buffer grows like a Vec
RingPush_Grows(buffer, sample) == Append(buffer, sample)

\* dasp_ring_buffer::Fixed::push: the oldest element leaves, the length stays
RingPush(buffer, sample) == Append(Tail(buffer), sample)

\* mutant: the whole transfer buffer is pushed, without take(sample_count)
PushAll_WholeTmpVec(buffer, samples) ==
    LET tmp_vec == samples \o [i \in 1..(FFT_SIZE - Len(samples)) |-> 0]
    IN  SubSeq(buffer \o tmp_vec, Len(tmp_vec) + 1, Len(buffer) + Len(tmp_vec))

\* tmp_vec.iter().take(sample_count).for_each(push)
RECURSIVE PushAll(_, _)
PushAll(buffer, samples) ==
    IF samples = <<>> THEN buffer
    ELSE PushAll(RingPush(buffer, Head(samples)), Tail(samples))

RECURSIVE WindowSum(_, _, _)
WindowSum(buffer, k, j) ==
    IF j > Len(buffer) THEN 0
    ELSE buffer[j] * (1 + ((j * k) % 3)) + WindowSum(buffer, k, j + 1)

\* the Hann window, the forward FFT and norm_sqr / sqrt(N): one bin per
\* window position, each a non-negative function of the whole buffer (the
\* transform itself is not computed: a fixed weighted sum stands for it)
Spectrum(buffer) ==
    [k \in 1..FFT_SIZE |-> WindowSum(buffer, k, 1) % 5]

\* mutant: the drain waits for a full window of samples
PopCount_FullWindowOnly(q) == IF Len(q) >= FFT_SIZE THEN FFT_SIZE ELSE 0

\* audio_sample_rx.pop_slice(tmp_vec): how many samples it pops
PopCount(q) == Min(Len(q), FFT_SIZE)

\* the producer side of the Sample Queue: one sample, dropped when full
ProducerPush ==
    /\ produced < MaxSamples
    /\ Len(queue) < QueueCap
    /\ queue' = Append(queue, produced + 1)
    /\ produced' = produced + 1
    /\ UNCHANGED <<loopVars, analyzed, audio_sample_buffer, fft_result, build, query,
                   computeVars, readerVars>>

\* compute_fft up to fft_result.write(): drain, push into the History
\* Buffer, window and transform
ComputeFft ==
    /\ apc = "idle"
    /\ sample_count' = PopCount(queue)
    /\ audio_sample_buffer' =
          PushAll(audio_sample_buffer, SubSeq(queue, 1, sample_count'))
    /\ queue' = SubSeq(queue, sample_count' + 1, Len(queue))
    /\ fft_window_buffer' = Spectrum(audio_sample_buffer')
    /\ apc' = "publish"
    /\ UNCHANGED <<loopVars, analyzed, produced, fft_result, build, query, readerVars>>

\* mutant: the frame is assigned without taking the lock
CanWrite_NoLock(holders) == TRUE

\* RwLock::write returns once no reader holds the lock
CanWrite(holders) == holders = {}

\* compute_fft from fft_result.write() on: the write guard is taken, raw_bins
\* is assigned the collected bins, the guard is dropped
PublishFrame ==
    /\ apc = "publish"
    /\ CanWrite(readers)
    /\ fft_result' = fft_window_buffer
    /\ analyzed' = TRUE
    /\ apc' = "idle"
    /\ UNCHANGED <<loopVars, audio_sample_buffer, queue, produced, build, query,
                   sample_count, fft_window_buffer, readerVars>>

\* a reader takes fft_result.read(): no writer holds the lock between steps,
\* and other readers do not exclude it
ReadGuard(r) ==
    /\ r \notin readers
    /\ readers' = readers \cup {r}
    /\ view' = [view EXCEPT ![r] = <<>>]

ReaderAcquire ==
    /\ \E r \in Readers : ReadGuard(r)
    /\ UNCHANGED <<loopVars, analyzed, audio_sample_buffer, queue, produced,
                   fft_result, build, query, computeVars>>

\* a reader holding the guard reads the next bin of raw_bins
ReaderRead ==
    /\ \E r \in readers :
         /\ Len(view[r]) < Len(fft_result)
         /\ view' = [view EXCEPT ![r] = Append(@, fft_result[Len(@) + 1])]
    /\ UNCHANGED <<loopVars, analyzed, audio_sample_buffer, queue, produced,
                   fft_result, build, query, computeVars, readers>>

\* a reader drops its guard
ReaderRelease ==
    /\ \E r \in readers :
         /\ readers' = readers \ {r}
         /\ view' = [view EXCEPT ![r] = <<>>]
    /\ UNCHANGED <<loopVars, analyzed, audio_sample_buffer, queue, produced,
                   fft_result, build, query, computeVars>>

\* no query in progress; a query records its arguments, the frame it read
\* and what it returned
NoQuery == [op |-> "none", a |-> 0, b |-> 0, frame |-> <<>>, result |-> Value(0, 1)]

\* a caller reads the published frame through band_amplitude
QueryBand ==
    /\ query = NoQuery
    /\ \E min_freq \in 0..MaxHz, max_freq \in 0..MaxHz :
         query' = [op |-> "band", a |-> min_freq, b |-> max_freq, frame |-> fft_result,
                   result |-> get_frequency_interval_average_amplitude(
                                  fft_result, min_freq, max_freq, build)]
    /\ UNCHANGED <<loopVars, analyzed, audio_sample_buffer, queue, produced,
                   fft_result, build, computeVars, readerVars>>

\* a caller reads the published frame through range_average
QueryRange ==
    /\ query = NoQuery
    /\ \E low \in 0..MaxHz, high \in 0..MaxHz :
         query' = [op |-> "range", a |-> low, b |-> high, frame |-> fft_result,
                   result |-> get_frequency_interval_average(fft_result, low, high, build)]
    /\ UNCHANGED <<loopVars, analyzed, audio_sample_buffer, queue, produced,
                   fft_result, build, computeVars, readerVars>>

\* the caller has used the result
QueryReturn ==
    /\ query # NoQuery
    /\ query' = NoQuery
    /\ UNCHANGED <<loopVars, analyzed, audio_sample_buffer, queue, produced,
                   fft_result, build, computeVars, readerVars>>

\* ------------------------------------------------------ specifications

\* AudioSignalProcessor::new: zeroed History Buffer, FftResult::default()
AnalyzerStart ==
    /\ audio_sample_buffer = [i \in 1..FFT_SIZE |-> 0]
    /\ queue = <<>>
    /\ produced = 0
    /\ fft_result = <<>>
    /\ query = NoQuery
    /\ analyzed = FALSE
    /\ sample_count = 0
    /\ apc = "idle"
    /\ fft_window_buffer = [i \in 1..FFT_SIZE |-> 0]
    /\ readers = {}
    /\ view = [r \in Readers |-> <<>>]

LoopStart ==
    /\ connections = InitialConnections
    /\ pc = "sleep"
    /\ si = 1
    /\ bi = 1
    /\ panic = ""
    /\ log = <<>>
    /\ failed = {}

\* the control loop, over the setups tick can be handed
Init ==
    /\ ledstrips \in [1..NumStrips -> StripSetups]
    /\ effect_settings \in EffectSettingsChoices
    /\ LoopStart
    /\ AnalyzerStart
    /\ build = "debug"

Next == Sleep \/ EvalBinding \/ Dispatch

Spec == Init /\ [][Next]_vars

\* the loop never blocks: sleep, tick and the enqueue all return
FairSpec == Spec /\ WF_vars(Next)

\* the analyzer, in either build, beside the reference setup of the loop
AnalyzerInit ==
    /\ ledstrips = [s \in 1..NumStrips |->
                      [colors |-> DefaultColors,
                       effects |-> << <<30, <<0, LedCount - 1>> >> >>,
                       connection_id |-> Some(1)]]
    /\ effect_settings = ReferenceEffectSettings
    /\ LoopStart
    /\ AnalyzerStart
    /\ build \in {"debug", "release"}

AnalyzerNext ==
    ProducerPush \/ ComputeFft \/ PublishFrame \/ QueryBand \/ QueryRange \/ QueryReturn

AnalyzerSpec == AnalyzerInit /\ [][AnalyzerNext]_vars

\* the analyzer beside readers on other threads
LockInit ==
    /\ ledstrips = [s \in 1..NumStrips |->
                      [colors |-> DefaultColors,
                       effects |-> << <<30, <<0, LedCount - 1>> >> >>,
                       connection_id |-> Some(1)]]
    /\ effect_settings = ReferenceEffectSettings
    /\ LoopStart
    /\ AnalyzerStart
    /\ build = "debug"

LockNext ==
    \/ ProducerPush
    \/ ComputeFft
    \/ PublishFrame
    \/ ReaderAcquire
    \/ ReaderRead
    \/ ReaderRelease

LockSpec == LockInit /\ [][LockNext]_vars

\* ------------------------------------------------ what the claims speak of

\* binding b of strip s has been evaluated in the iteration l records
Evaluated(l, s, b) ==
    \E i \in DOMAIN l : /\ l[i].ev \in {"update", "luaerr"}
                        /\ l[i].strip = s /\ l[i].binding = b

\* where in l strip s was dispatched
Dispatches(l, s) ==
    {i \in DOMAIN l : l[i].ev = "dispatch" /\ l[i].strip = s}

\* binding b of strip s resolves to a settings entity of another variant
Mismatch(s, b) ==
    LET id == ledstrips[s].effects[b][1]
    IN  /\ IntervalInBounds(ledstrips[s].colors, ledstrips[s].effects[b][2])
        /\ id \in DOMAIN effects
        /\ id \in DOMAIN effect_settings
        /\ effect_settings[id] \in DOMAIN settings
        /\ settings[effect_settings[id]] # effects[id]

\* binding b of strip s passes every check of tick
BindingSound(s, b) ==
    LET id == ledstrips[s].effects[b][1]
    IN  /\ IntervalInBounds(ledstrips[s].colors, ledstrips[s].effects[b][2])
        /\ id \in DOMAIN effects
        /\ id \in DOMAIN effect_settings
        /\ effect_settings[id] \in DOMAIN settings
        /\ settings[effect_settings[id]] = effects[id]

\* strip s is bound to a connection of the given transport
BoundTo(s, transport) ==
    /\ ledstrips[s].connection_id # None
    /\ ledstrips[s].connection_id[1] \in DOMAIN connections
    /\ connections[ledstrips[s].connection_id[1]] = transport

\* nothing in the setup is fatal to tick
FatalFree ==
    \A s \in 1..NumStrips :
        /\ \A b \in DOMAIN ledstrips[s].effects : BindingSound(s, b)
        /\ ~BoundTo(s, "Usb")

\* the iteration l records has evaluated every binding of every strip
AllEvaluated(l) ==
    \A s \in 1..NumStrips : \A b \in DOMAIN ledstrips[s].effects : Evaluated(l, s, b)

\* C1 step: the step on which an enqueue fails unbinds that strip and drops
\* the connection from the registry; a strip whose enqueue has failed stays
\* unbound and is never dispatched again
C1_Step ==
    /\ \A s \in failed' \ failed :
         /\ ledstrips[s].connection_id # None
         /\ ledstrips'[s].connection_id = None
         /\ ledstrips[s].connection_id[1] \notin DOMAIN connections'
    /\ \A s \in failed :
         /\ ledstrips'[s].connection_id = None
         /\ Cardinality(Dispatches(log', s)) <= Cardinality(Dispatches(log, s))

\* C1: a strip whose enqueue fails is unbound and its connection leaves the
\* registry in that very tick, and no later tick dispatches that strip
C1_FailedSendUnbinds == [][C1_Step]_vars

\* C1 witness: a later tick stands at the dispatch point of a strip whose
\* enqueue failed in an earlier tick
C1_Witness ==
    /\ pc = "dispatch" /\ si \in failed
    /\ ledstrips[si].connection_id = None
    /\ 1 \notin DOMAIN connections

\* C2 step: the step taken at a mismatching binding aborts without calling
\* the effect, and an aborted process takes no further step; no iteration
\* records an evaluation of a mismatching binding, nor a dispatch of a strip
\* that holds one
C2_Step ==
    /\ (pc = "effects" /\ Mismatch(si, bi)) =>
         /\ pc' = "aborted"
         /\ panic' = "Effect doesn't match settings"
         /\ log' = log
         /\ ledstrips' = ledstrips
         /\ connections' = connections
    /\ pc # "aborted"
    /\ \A i \in DOMAIN log' :
         /\ log'[i].ev \in {"update", "luaerr"} => ~Mismatch(log'[i].strip, log'[i].binding)
         /\ log'[i].ev = "dispatch" =>
              \A b \in DOMAIN ledstrips[log'[i].strip].effects : ~Mismatch(log'[i].strip, b)

\* C2: a binding whose settings variant differs from its effect variant
\* aborts the tick: its update is not invoked, no later binding is
\* evaluated and the strip is not dispatched
C2_MismatchAborts == [][C2_Step]_vars

\* C2 witness: the process aborted on the first binding of a strip that has
\* a second binding and a bound connection
C2_Witness ==
    /\ pc = "aborted" /\ panic = "Effect doesn't match settings"
    /\ bi = 1 /\ Len(ledstrips[si].effects) = 2
    /\ ledstrips[si].connection_id # None
    /\ Mismatch(si, bi)
    /\ ~Evaluated(log, si, 1) /\ ~Evaluated(log, si, 2) /\ Dispatches(log, si) = {}

\* C3 (as claimed): whenever the current iteration has evaluated an effect,
\* the analyzer was updated earlier in that iteration, and every dispatch
\* of a strip comes after the evaluations of that strip
C3_AnalyzerThenEffectsThenDispatch ==
    /\ (\E i \in DOMAIN log : log[i].ev \in {"update", "luaerr"}) => analyzed
    /\ \A i \in DOMAIN log, j \in DOMAIN log :
         (/\ log[i].ev = "dispatch" /\ log[j].ev \in {"update", "luaerr"}
          /\ log[i].strip = log[j].strip) => j < i

\* C4 step: no step at a binding that passes tick's checks aborts, whatever
\* the effect returns; the step on which lua.tick fails leaves the colors as
\* they were and goes on to the next binding or the dispatch of the strip;
\* a tick that saw such a failure and ran to its end has evaluated every
\* binding of every strip and dispatched every strip that is still bound
C4_Step ==
    /\ (pc = "effects" /\ BindingSound(si, bi)) => pc' # "aborted"
    /\ (/\ Len(log') = Len(log) + 1
        /\ log'[Len(log')].ev = "luaerr") =>
         /\ pc' # "aborted"
         /\ ledstrips' = ledstrips
         /\ si' = si
         /\ IF bi < Len(ledstrips[si].effects)
            THEN pc' = "effects" /\ bi' = bi + 1
            ELSE pc' = "dispatch"
    /\ (/\ pc = "dispatch" /\ pc' = "sleep"
        /\ \E i \in DOMAIN log' : log'[i].ev = "luaerr") =>
         /\ AllEvaluated(log')
         /\ \A s \in 1..NumStrips :
              ledstrips'[s].connection_id # None => Dispatches(log', s) # {}

\* C4: an error of a script-driven effect does not abort the tick: the
\* other bindings and strips are still evaluated and dispatched, and the
\* scheduler writes nothing to the failing binding's slice
C4_LuaErrorSkipped == [][C4_Step]_vars

\* C4 witness: a finished tick in which the first binding of strip 1
\* failed, its second binding was evaluated, strip 1 was dispatched and
\* strip 2 was evaluated
C4_Witness ==
    /\ pc = "sleep"
    /\ \E i \in DOMAIN log : log[i].ev = "luaerr" /\ log[i].strip = 1 /\ log[i].binding = 1
    /\ \E i \in DOMAIN log : log[i].ev = "update" /\ log[i].strip = 1 /\ log[i].binding = 2
    /\ Dispatches(log, 1) # {}
    /\ Evaluated(log, 2, 1)
    /\ ledstrips[1].colors[0] = Black

\* the loop is inside an iteration in which no enqueue has failed
TickStarted == pc # "sleep" /\ ~(\E i \in DOMAIN log : log[i].ev = "dispatch" /\ log[i].out = "failed")

\* an iteration has run to its end with every binding evaluated
TickDone == pc = "sleep" /\ AllEvaluated(log)

\* C5: where nothing in the setup is fatal, after an enqueue failure a new
\* tick always begins, and every tick begun after the failure runs to its
\* end with the bindings of every strip evaluated; no enqueue, failed or
\* not, aborts the process
C5_LoopSurvivesFailure ==
    /\ (failed # {} /\ FatalFree) ~> (failed # {} /\ TickStarted)
    /\ (failed # {} /\ FatalFree /\ TickStarted) ~> TickDone
    /\ [][(pc = "dispatch" /\ BoundTo(si, "Tcp")) => pc' # "aborted"]_vars

\* C5 witness: a tick later than the failure has run to its end with the
\* bindings of the failed strip evaluated
C5_Witness ==
    /\ failed # {} /\ FatalFree /\ TickDone
    /\ \A s \in failed : Dispatches(log, s) = {} /\ ledstrips[s].effects # <<>>

\* C6: the History Buffer holds FFT_SIZE samples at all times, and zeros
\* until a sample has been drained into it
C6_HistoryLength ==
    /\ Len(audio_sample_buffer) = FFT_SIZE
    /\ produced = Len(queue) => \A i \in 1..FFT_SIZE : audio_sample_buffer[i] = 0

\* C6 witness: more samples than the window holds have been drained, so the
\* oldest ones have left
C6_Witness ==
    /\ produced - Len(queue) > FFT_SIZE
    /\ audio_sample_buffer[1] = produced - Len(queue) - FFT_SIZE + 1
    /\ fft_result # <<>>

\* the bin indices range_average resolves its bounds to on the frame it
\* read: the high one clamped to the last bin (-1 on a frame without bins)
ResolvedHigh(high) == Min((high * FFT_SIZE) \div SAMPLE_RATE, Len(query.frame) - 1)
ResolvedLow(low) == (low * FFT_SIZE) \div SAMPLE_RATE

\* C7 (as claimed): band_amplitude returns 0, without erroring, for an
\* interval that is empty (min = max or min > max) or that starts beyond
\* the last bin of the frame
C7_DegenerateBandIsZero ==
    (/\ query.op = "band"
     /\ \/ query.a >= query.b
        \/ query.a * FFT_SIZE > (Len(query.frame) - 1) * SAMPLE_RATE) =>
        (query.result.kind = "value" /\ query.result.num = 0)

\* C8 (as claimed): range_average returns 0, without erroring, whenever the
\* low bin index is not below the high bin index, on every published frame
C8_EmptyRangeIsZero ==
    (/\ query.op = "range"
     /\ ResolvedLow(query.a) >= ResolvedHigh(query.b)) =>
        (query.result.kind = "value" /\ query.result.num = 0)

\* C9 step: the dispatch of a strip bound to a Usb connection aborts the
\* process and leaves the strip bound and the registry as it was
C9_Step ==
    (pc = "dispatch" /\ BoundTo(si, "Usb")) =>
        /\ pc' = "aborted"
        /\ panic' = "not yet implemented: Implement Usb connection"
        /\ connections' = connections
        /\ ledstrips' = ledstrips
        /\ failed' = failed
        /\ log'[Len(log')].out = "todo"

\* C9: dispatching over a transport without a send path halts the process;
\* the connection is neither removed nor unbound, and nothing is sent
C9_UsbHalts == [][C9_Step]_vars

\* C9 witness: the process halted in the Usb arm, the strip still bound to
\* a connection that is still registered
C9_Witness ==
    /\ pc = "aborted" /\ panic = "not yet implemented: Implement Usb connection"
    /\ BoundTo(si, "Usb")
    /\ log[Len(log)] = Event("dispatch", si, 0, "todo")

\* C10 step: a step dispatches the strip the loop is at exactly when the
\* loop is past the strip's bindings and the strip is bound; each strip is
\* dispatched at most once per tick, after all its bindings were evaluated;
\* an unbound strip causes no enqueue
C10_Step ==
    /\ \A s \in 1..NumStrips :
         /\ Cardinality(Dispatches(log', s)) <= 1
         /\ Dispatches(log', s) # {} =>
              \A b \in DOMAIN ledstrips[s].effects : Evaluated(log', s, b)
         /\ Dispatches(log', s) # Dispatches(log, s) /\ log' # <<>> =>
              /\ pc = "dispatch" /\ si = s
              /\ ledstrips[s].connection_id # None
    /\ pc = "dispatch" =>
         (ledstrips[si].connection_id # None <=> Dispatches(log', si) # {})
    /\ (pc = "dispatch" /\ ledstrips[si].connection_id = None) => log' = log

\* C10: per tick and strip, Output Dispatch is invoked at most once, only
\* after every binding of the strip has been evaluated, and exactly when
\* the strip's connection identifier is set
C10_DispatchOncePerStrip == [][C10_Step]_vars

\* C10 witness: a finished tick that dispatched a bound strip after its two
\* bindings and passed over an unbound strip
C10_Witness ==
    /\ pc = "sleep"
    /\ \E s \in 1..NumStrips :
         /\ Len(ledstrips[s].effects) = 2 /\ Dispatches(log, s) # {}
         /\ Evaluated(log, s, 1) /\ Evaluated(log, s, 2)
    /\ \E s \in 1..NumStrips :
         /\ ledstrips[s].connection_id = None /\ s \notin failed
         /\ ledstrips[s].effects # <<>> /\ Dispatches(log, s) = {}
         /\ AllEvaluated(log)

\* C11: every byte sequence handed to a connection's queue has 3 bytes per
\* LED of the strip, and bytes 3i, 3i+1, 3i+2 (from 0) are the R, G and B
\* channels of LED i; nothing precedes or follows them
C11_WireFormat ==
    \A e \in DOMAIN log :
        (log[e].ev = "dispatch" /\ log[e].out \in {"sent", "failed"}) =>
            LET colors == ledstrips[log[e].strip].colors
                n == Cardinality(DOMAIN colors)
            IN  /\ Len(log[e].data) = 3 * n
                /\ \A i \in 0..(n - 1) :
                     /\ log[e].data[3 * i + 1] = colors[i][1]
                     /\ log[e].data[3 * i + 2] = colors[i][2]
                     /\ log[e].data[3 * i + 3] = colors[i][3]

\* C11 witness: a strip whose LEDs differ from each other and whose
\* channels differ has been sent
C11_Witness ==
    \E e \in DOMAIN log :
        /\ log[e].ev = "dispatch" /\ log[e].out = "sent"
        /\ ledstrips[log[e].strip].colors[0] = <<255, 0, 0>>
        /\ ledstrips[log[e].strip].colors[1] = <<1, 2, 3>>
        /\ log[e].data[1] = 255 /\ log[e].data[4] = 1 /\ log[e].data[6] = 3

\* the interpolation C12 describes, at one frequency of a frame, as a
\* multiple of 1 / SAMPLE_RATE: t is the fraction of a bin width by which
\* the frequency lies above the lower bin, and the estimate is
\* (1 - t) * lower + t * upper
LinearEstimate(frame, frequency) ==
    LET lower_index == (frequency * FFT_SIZE) \div SAMPLE_RATE
        t == (frequency * FFT_SIZE) % SAMPLE_RATE
        upper_index == IF t = 0 THEN lower_index ELSE lower_index + 1
    IN  (SAMPLE_RATE - t) * frame[lower_index + 1] + t * frame[upper_index + 1]

RECURSIVE LinearEstimateSum(_, _, _)
LinearEstimateSum(frame, min_hz, max_hz) ==
    IF min_hz >= max_hz THEN 0
    ELSE LinearEstimate(frame, min_hz) + LinearEstimateSum(frame, min_hz + 1, max_hz)

\* every frequency of [min_hz, max_hz) has both its bracketing bins in the frame
BandInFrame(frame, min_hz, max_hz) ==
    /\ min_hz < max_hz
    /\ ((max_hz - 1) * FFT_SIZE) \div SAMPLE_RATE + 1 < Len(frame)

\* C12 (as claimed): over a band inside the frame, band_amplitude is the
\* mean over the integer frequencies of [min_hz, max_hz) of the linear
\* interpolation (1 - t) * lower_bin + t * upper_bin
C12_BandIsMeanOfInterpolation ==
    (query.op = "band" /\ BandInFrame(query.frame, query.a, query.b)) =>
        /\ query.result.kind = "value"
        /\ query.result.num * (SAMPLE_RATE * (query.b - query.a))
             = LinearEstimateSum(query.frame, query.a, query.b) * query.result.den

RECURSIVE ClosedRangeSum(_, _, _)
ClosedRangeSum(frame, low_index, high_index) ==
    IF low_index > high_index THEN 0
    ELSE frame[high_index + 1] + ClosedRangeSum(frame, low_index, high_index - 1)

\* C13 (as claimed): where the low bin index is below the high bin index,
\* range_average is the sum of the bins of the closed index range divided
\* by the number of bins in it
C13_RangeIsMeanOfBins ==
    (/\ query.op = "range" /\ query.frame # <<>>
     /\ ResolvedLow(query.a) < ResolvedHigh(query.b)) =>
        /\ query.result.kind = "value"
        /\ query.result.num * (ResolvedHigh(query.b) - ResolvedLow(query.a) + 1)
             = ClosedRangeSum(query.frame, ResolvedLow(query.a), ResolvedHigh(query.b))
                 * query.result.den

\* a step of compute_fft up to the lock, and the step that publishes
ComputeStep == apc = "idle" /\ apc' = "publish"
PublishStep == apc = "publish" /\ apc' = "idle"

C14_Step ==
    /\ (ComputeStep /\ queue = <<>>) =>
          /\ sample_count' = 0
          /\ audio_sample_buffer' = audio_sample_buffer
          /\ fft_result # <<>> => fft_window_buffer' = fft_result
    /\ PublishStep => fft_result' = fft_window_buffer

\* C14: a compute call made while the Sample Queue is empty completes, leaves
\* the History Buffer as it was, and the frame it publishes equals the frame
\* the previous compute call published
C14_EmptyComputeIdempotent == [][C14_Step]_vars

\* the last compute call drained nothing and has published, over a History
\* Buffer that an earlier call filled with samples
C14_Witness ==
    /\ apc = "idle"
    /\ analyzed
    /\ sample_count = 0
    /\ queue = <<>>
    /\ \E i \in DOMAIN audio_sample_buffer : audio_sample_buffer[i] # 0
    /\ \E k \in DOMAIN fft_result : fft_result[k] # 0
    /\ fft_result = fft_window_buffer

\* C15: the published frame is replaced atomically: what a reader has read
\* under one read guard is part of one published frame, also while compute
\* runs; a reader that holds no guard can take one whoever else holds one;
\* once a compute has published, the frame has exactly FFT_SIZE bins
C15_AtomicFrame ==
    /\ \A r \in readers : view[r] = SubSeq(fft_result, 1, Len(view[r]))
    /\ \A r \in Readers \ readers : ENABLED ReadGuard(r)
    /\ analyzed => Len(fft_result) = FFT_SIZE

\* two readers hold read access, one has read a whole frame, while compute
\* waits to publish a frame that differs from it
C15_Witness ==
    /\ apc = "publish"
    /\ fft_window_buffer # fft_result
    /\ Cardinality(readers) >= 2
    /\ \E r \in readers : Len(view[r]) = FFT_SIZE /\ view[r] = fft_result

\* the samples a drain finds: all that are queued, at most a transfer buffer
Available == IF Len(queue) <= FFT_SIZE THEN Len(queue) ELSE FFT_SIZE

C16_Step ==
    ComputeStep =>
        /\ sample_count' = Available
        /\ queue' = SubSeq(queue, Available + 1, Len(queue))
        /\ audio_sample_buffer' =
              SubSeq(audio_sample_buffer, Available + 1, Len(audio_sample_buffer))
                \o SubSeq(queue, 1, Available)

\* C16: a drain is possible whatever the producer has done; it takes the
\* samples now queued, up to the transfer buffer's capacity, in arrival
\* order and leaves the rest queued in order; the History Buffer afterwards
\* is its previous contents without the oldest k samples, followed by the k
\* drained samples in arrival order
C16_DrainInOrder ==
    /\ [][C16_Step]_vars
    /\ [](apc = "idle" => ENABLED ComputeFft)

\* a drain has filled the transfer buffer and left later samples queued
C16_Witness ==
    /\ apc = "publish"
    /\ sample_count = FFT_SIZE
    /\ queue # <<>>
    /\ \A i \in DOMAIN audio_sample_buffer : audio_sample_buffer[i] # 0

C17_Step ==
    \A s \in failed' \ failed :
        /\ ledstrips'[s].colors = ledstrips[s].colors
        /\ ledstrips'[s].effects = ledstrips[s].effects
        /\ \A t \in DOMAIN ledstrips \ {s} : ledstrips'[t] = ledstrips[t]
        /\ DOMAIN connections' \subseteq DOMAIN connections
        /\ \A k \in DOMAIN connections \ {ledstrips[s].connection_id[1]} :
              k \in DOMAIN connections' /\ connections'[k] = connections[k]
        /\ effect_settings' = effect_settings
        /\ IF s < NumStrips
           THEN si' = s + 1 /\ bi' = 1 /\ pc' \in {"effects", "dispatch"}
           ELSE pc' = "sleep"

\* C17: the step in which a strip's enqueue fails leaves that strip's colors
\* and bindings, every other strip, every other registry entry and the
\* effect-to-settings map as they were, and tick goes on to the next strip
C17_FailureFrame == [][C17_Step]_vars

\* the enqueue of strip 1 has just failed after its effects ran; tick is at
\* strip 2, which is bound to the other connection
C17_Witness ==
    /\ log # <<>>
    /\ log[Len(log)].ev = "dispatch"
    /\ log[Len(log)].out = "failed"
    /\ log[Len(log)].strip = 1
    /\ ledstrips[1].colors # DefaultColors
    /\ si = 2 /\ pc = "effects"
    /\ ledstrips[2].connection_id = Some(2)
    /\ 2 \in DOMAIN connections

\* C18: every strip whose connection_id is set is bound to a connection
\* that is in the registry
C18_NoDanglingBinding ==
    \A s \in DOMAIN ledstrips :
        ledstrips[s].connection_id # None =>
            ledstrips[s].connection_id[1] \in DOMAIN connections

\* the inclusive interval of binding b reaches past the last LED of strip s
IntervalOutside(s, b) ==
    ledstrips[s].effects[b][2][2] >= Cardinality(DOMAIN ledstrips[s].colors)

\* the effect id of binding b is in no effect registry entry
EffectAbsent(s, b) == ledstrips[s].effects[b][1] \notin DOMAIN effects

\* the effect id of binding b has no entry in the effect-to-settings map
SettingsUnmapped(s, b) == ledstrips[s].effects[b][1] \notin DOMAIN effect_settings

\* the settings id mapped to the effect of binding b is in no settings entry
SettingsAbsent(s, b) ==
    /\ ledstrips[s].effects[b][1] \in DOMAIN effect_settings
    /\ effect_settings[ledstrips[s].effects[b][1]] \notin DOMAIN settings

C19_Step ==
    (/\ pc = "effects"
     /\ \/ IntervalOutside(si, bi)
        \/ EffectAbsent(si, bi)
        \/ SettingsUnmapped(si, bi)
        \/ SettingsAbsent(si, bi)) =>
        /\ pc' = "aborted"
        /\ panic' # ""
        /\ log' = log
        /\ ledstrips' = ledstrips

\* C19: the step tick takes at a binding whose interval is outside the color
\* buffer, whose effect id is absent, whose effect id is unmapped or whose
\* settings id is absent aborts the process, and no effect update has run
\* for that binding
C19_UnresolvedBindingAborts == [][C19_Step]_vars

\* tick has aborted at a binding whose effect exists, lies within the buffer
\* and is mapped to a settings id that is in no settings entry
C19_Witness ==
    /\ pc = "aborted"
    /\ panic = "Effect doesn't match settings"
    /\ ~IntervalOutside(si, bi)
    /\ ~EffectAbsent(si, bi)
    /\ SettingsAbsent(si, bi)
    /\ ~Evaluated(log, si, bi)

\* the other three aborts are reached as well
C19_ReachesInterval ==
    /\ panic = "Ledstrip interval out of bounds"
    /\ IntervalOutside(si, bi)
C19_ReachesEffect ==
    /\ panic = "Effect id was not found."
    /\ ~IntervalOutside(si, bi) /\ EffectAbsent(si, bi)
C19_ReachesUnmapped ==
    /\ panic = "Setting id not found"
    /\ ~IntervalOutside(si, bi) /\ ~EffectAbsent(si, bi) /\ SettingsUnmapped(si, bi)

====
